---------------------------- MODULE Spec2Model ----------------------------
(***************************************************************************)
(* Streak / check-in state machine of PurePath (src/src/pages/Profile.tsx, *)
(* the firebase utilities at lines 464-700).                               *)
(*                                                                         *)
(* The document store is modelled by two collections:                      *)
(*   users    : a function from the ids of the existing profile documents  *)
(*              to the document (a record holding only the fields that are *)
(*              present in it);                                            *)
(*   relapses : a function from document ids to RelapseRecords.            *)
(* Every async operation is cut at its awaits: one action per store call,  *)
(* which also runs the synchronous code up to the next await.  Time is     *)
(* kept at the resolution the streak logic reads it: a timestamp is the    *)
(* number of the day (days since 1970-01-01) it falls on; calendar dates   *)
(* are computed from it the way the Date getters do (proleptic Gregorian   *)
(* calendar, time zone offset 0).                                          *)
(*                                                                         *)
(* Two further specifications share the module: DecisionSpec hands a range *)
(* of profiles and times to updateStreak's decision on its own, and        *)
(* CardSpec is the MeditationCard component of                             *)
(* src/src/components/ThemeProvider.tsx (lines 46-163).  Each              *)
(* specification leaves the variables of the others at their initial       *)
(* values.                                                                 *)
(***************************************************************************)
EXTENDS Integers, Sequences, FiniteSets, TLC

VARIABLES
    users,        \* collection 'users': uid -> profile document
    relapses,     \* collection 'relapses': doc id -> RelapseRecord
    accounts,     \* uids the authentication service has issued
    clock,        \* current time: the number of today's day
    calls,        \* the outstanding / finished invocations, per call slot
    lastWrite,    \* history: <<names of the fields>> of the profile update this step issued
    checkinDays,  \* history: per user, the days whose check-in was recorded
    clean,        \* history: per user, registered here and never relapsed
    probe,        \* a profile and a time handed to updateStreak's decision, and what it decided
    card          \* the MeditationCard component: its state, its render and its timers

vars == <<users, relapses, accounts, clock, calls, lastWrite, checkinDays, clean,
          probe, card>>

---------------------------------------------------------------------------
(* Bounds of the model *)

\* days the clock may advance
MaxTicks == 2
\* relapse records (stored or pending) in sequential histories
MaxRelapses == 2
\* relapse records (stored or pending) in histories with overlapping calls
MaxOverlapRelapses == 1
MaxLegacyStreak == 1
\* the decision probe: the days after ProbeFirstDay it covers, and the largest
\* stored streak it is handed
ProbeSpan == 66
MaxProbeStreak == 2
\* MeditationCard: the 100 ms intervals that fill the progress bar (600 a
\* minute of `duration` in the component), the timers a history creates and
\* the intervals elapsedTime counts
TotalIntervals == 6
MaxTimers == 4
MaxElapsed == 10

UserIds == {"u1"}
CallIds == {"c1", "c2"}
SlotBefore(c, d) == c = "c1" /\ d = "c2"
Usernames == {"ann"}
\* the `notes?: string` argument: <<>> is an omitted argument
NotesInputs == {<<>>, <<"">>, <<"slip">>}
\* causes a rejected store call can carry
StoreErrors == {"unavailable"}
\* first day of the clock's window: 2024-01-30, so that the window runs over
\* the end of a month (Jan 30, Jan 31, Feb 1, ...)
StartDays == {19752}
\* first day the decision probe covers: 2023-12-29, so that with ProbeSpan the
\* probe runs over the ends of December, January and (leap) February
ProbeFirstDay == 19720

---------------------------------------------------------------------------
(* Calendar: what Date.getFullYear / getMonth / getDate return *)

\* the civil date of a day number (days since 1970-01-01)
Civil(day) ==
    LET z   == day + 719468
        era == z \div 146097
        doe == z - era * 146097
        yoe == (doe - doe \div 1460 + doe \div 36524 - doe \div 146096) \div 365
        doy == doe - (365 * yoe + yoe \div 4 - yoe \div 100)
        mp  == (5 * doy + 2) \div 153
        d   == doy - (153 * mp + 2) \div 5 + 1
        m   == IF mp < 10 THEN mp + 3 ELSE mp - 9
        y   == yoe + era * 400 + (IF m <= 2 THEN 1 ELSE 0)
    IN  [year |-> y, month |-> m, day |-> d]

getFullYear(t) == Civil(t).year
getMonth(t) == Civil(t).month - 1
getDate(t) == Civil(t).day

---------------------------------------------------------------------------
(* Documents and results *)

NoFields == [f \in {} |-> 0]

\* optional field of a document: <<v>> when present, <<>> when absent
Field(d, f) == IF f \in DOMAIN d THEN <<d[f]>> ELSE <<>>

\* faulty variant: streakDays is written as an increment of the stored value
MergeIncrement(d, fields) ==
    [f \in (DOMAIN d) \cup (DOMAIN fields) |->
        IF f = "streakDays" /\ f \in DOMAIN d /\ f \in DOMAIN fields /\ fields[f] > 0
        THEN d[f] + 1
        ELSE IF f \in DOMAIN fields THEN fields[f] ELSE d[f]]

\* updateDoc's merge of the given fields into a document
Merge(d, fields) ==
    [f \in (DOMAIN d) \cup (DOMAIN fields) |->
        IF f \in DOMAIN fields THEN fields[f] ELSE d[f]]

Put(coll, id, d) ==
    [k \in (DOMAIN coll) \cup {id} |-> IF k = id THEN d ELSE coll[k]]

\* A call slot holds what the invocation still needs at its next await (the
\* fields of the pending updateDoc, the pending RelapseRecord and its id), the
\* number of store calls it has issued, and, once it has returned, its result
\* and the cause the store gave if it rejected a call of the invocation.
\* notes is the argument of a logRelapse whose record is still pending.
\* writtenSince is history: <<op>> when, since the invocation read the profile,
\* the store has accepted an update of its streak fields by another invocation,
\* op being the operation of the latest such invocation.
IdleCall ==
    [pc |-> "idle", op |-> "none", user |-> "u1", notes |-> <<>>,
     fields |-> NoFields, record |-> NoFields, recordId |-> 0,
     getDocs |-> 0, setDocs |-> 0, updateDocs |-> 0,
     error |-> <<>>, result |-> <<>>, writtenSince |-> <<>>]

InFlight(c) == calls[c].pc \notin {"idle", "done"}
Free(c) == ~InFlight(c)
Quiet == \A c \in CallIds : Free(c)

\* a new invocation takes the first slot that holds no outstanding call
FirstFree(c) == Free(c) /\ \A d \in CallIds : Free(d) => ~SlotBefore(d, c)

Ok(streakDays, message) ==
    [success |-> TRUE, streakDays |-> streakDays, message |-> message]

\* { success: false, message }
Failure(message) ==
    [success |-> FALSE, streakDays |-> <<>>, message |-> message]

Return(call, r) ==
    [call EXCEPT !.pc = "done", !.result = <<r>>, !.notes = <<>>,
                 !.fields = NoFields, !.record = NoFields, !.recordId = 0]

\* a returned result is held for one step: the slot of a finished call is
\* cleared by the next step of the system
\* faulty variant: the error is swallowed and the call reports success
CatchSwallow(call, cause) ==
    Return([call EXCEPT !.error = <<cause>>], Ok(<<>>, cause))

\* the catch blocks, entered with the error a rejected store call threw
Catch(call, cause) == Return([call EXCEPT !.error = <<cause>>], Failure(cause))

Sweep(call) == IF call.pc = "done" THEN IdleCall ELSE call

\* the call slots after slot c has moved to `next`
Step(c, next) == [d \in CallIds |-> IF d = c THEN next ELSE Sweep(calls[d])]
Swept == [d \in CallIds |-> Sweep(calls[d])]

\* call d has read the profile of user u and has not yet written it
HasRead(call, u) ==
    call.pc = "updateDoc" /\ call.op = "updateStreak" /\ call.user = u

\* the call slots after slot c has moved to `next` by an accepted update of the
\* streak fields of u's profile: the other calls that have read it are overtaken
Overtake(c, next, u) ==
    [d \in CallIds |->
        IF d # c /\ HasRead(calls[d], u)
        THEN [calls[d] EXCEPT !.writtenSince = <<calls[c].op>>]
        ELSE Step(c, next)[d]]

---------------------------------------------------------------------------
(* updateStreak's decision, lines 605-633 *)

\* userData.lastCheckIn?.toDate() || new Date(0)
LastCheckInOf(userData) ==
    IF "lastCheckIn" \in DOMAIN userData THEN userData.lastCheckIn ELSE 0

\* faulty variant: yesterday is the day before now, whatever the month
IsYesterdayByElapsedDays(lastCheckIn, now) ==
    lastCheckIn + 1 = now

IsYesterday(lastCheckIn, now) ==
    /\ getDate(lastCheckIn) = getDate(now) - 1
    /\ getMonth(lastCheckIn) = getMonth(now)
    /\ getFullYear(lastCheckIn) = getFullYear(now)

\* faulty variant: the isYesterday test pasted as the isToday test
IsTodayCopyPaste(lastCheckIn, now) ==
    /\ getDate(lastCheckIn) = getDate(now) - 1
    /\ getMonth(lastCheckIn) = getMonth(now)
    /\ getFullYear(lastCheckIn) = getFullYear(now)

IsToday(lastCheckIn, now) ==
    /\ getDate(lastCheckIn) = getDate(now)
    /\ getMonth(lastCheckIn) = getMonth(now)
    /\ getFullYear(lastCheckIn) = getFullYear(now)

\* userData.streakDays || 0
StreakDaysOrZero(userData) ==
    IF "streakDays" \in DOMAIN userData THEN userData.streakDays ELSE 0

\* faulty variant: the streak is kept, not incremented, after a check-in yesterday
NextStreakDaysNoIncrement(userData, now) ==
    LET lastCheckIn == LastCheckInOf(userData)
        streakDays == StreakDaysOrZero(userData)
    IN  IF IsYesterday(lastCheckIn, now) THEN streakDays
        ELSE IF ~IsToday(lastCheckIn, now) THEN 1
        ELSE streakDays

\* faulty variant: a missed day resets the streak to 0 instead of 1
NextStreakDaysResetToZero(userData, now) ==
    LET lastCheckIn == LastCheckInOf(userData)
        streakDays == StreakDaysOrZero(userData)
    IN  IF IsYesterday(lastCheckIn, now) THEN streakDays + 1
        ELSE IF ~IsToday(lastCheckIn, now) THEN 0
        ELSE streakDays

NextStreakDays(userData, now) ==
    LET lastCheckIn == LastCheckInOf(userData)
        streakDays == StreakDaysOrZero(userData)
    IN  IF IsYesterday(lastCheckIn, now) THEN streakDays + 1
        ELSE IF ~IsToday(lastCheckIn, now) THEN 1
        ELSE streakDays

\* faulty variant: the update carries the new streak without the check-in time
StreakUpdateWithoutCheckIn(streakDays, now) ==
    [streakDays |-> streakDays]

\* the fields updateStreak hands to updateDoc
StreakUpdate(streakDays, now) ==
    [lastCheckIn |-> now, streakDays |-> streakDays]

\* the fields logRelapse hands to updateDoc
RelapseReset(now) ==
    [streakDays |-> 0, lastCheckIn |-> now]

\* faulty variant: the notes are stored as given, without the || '' default
NotesAsGiven(notes) ==
    IF notes = <<>> THEN "undefined" ELSE notes[1]

\* notes || ''
NotesOrEmpty(notes) ==
    IF notes = <<>> THEN "" ELSE notes[1]

RelapseRecord(userId, now, notes) ==
    [userId |-> userId, timestamp |-> now, notes |-> NotesOrEmpty(notes)]

\* the document register creates
NewProfile(username, now) ==
    [username |-> username, role |-> "member",
     streakDays |-> 0, lastCheckIn |-> now]

\* the fields the profile form submits
ProfileFormFields(username) ==
    [username |-> username]

\* doc(collection(db, 'relapses')): a document reference with a new id
UsedIds ==
    (DOMAIN relapses) \cup
    {calls[c].recordId : c \in {d \in CallIds : calls[d].pc = "setDoc"}}

\* faulty variant: every record is written under one fixed document id
AutoIdFixed == CHOOSE id \in {1} : TRUE

RelapsesBelow(bound) == Cardinality(UsedIds) < bound

AutoId ==
    CHOOSE id \in 1..(Cardinality(UsedIds) + 1) : id \notin UsedIds

---------------------------------------------------------------------------
(* What the histories of the streak operations leave untouched *)

\* no profile and no time has been handed to updateStreak's decision
NoProbe ==
    [userData |-> NoFields, now |-> 0, isYesterday |-> <<>>, after |-> <<>>]

\* MeditationCard as mounted: the useState initial values (lines 55-58), the
\* render's intervalRef (line 59, <<>> is null), no timer running and none
\* created.  progress is counted in increments (incrementPerInterval, line 68),
\* elapsedTime in tenths of a second.
NewCard ==
    [isPlaying |-> FALSE, isFavorited |-> FALSE, progress |-> 0, elapsedTime |-> 0,
     intervalRef |-> <<>>, timers |-> {}, created |-> 0]

---------------------------------------------------------------------------
(* Initial states: an empty relapse collection; each user either has no    *)
(* profile yet or a profile that lacks streak fields (both are optional in *)
(* UserProfile, lines 477-478).                                            *)

LegacyDocs ==
    {[username |-> "ann"]} \cup
    {[username |-> "ann", streakDays |-> s] : s \in 0..MaxLegacyStreak} \cup
    {[username |-> "ann", lastCheckIn |-> d] : d \in StartDays}

Init ==
    /\ \E S \in SUBSET UserIds : users \in [S -> LegacyDocs]
    /\ accounts = DOMAIN users
    /\ relapses = [k \in {} |-> NoFields]
    /\ clock \in StartDays
    /\ calls = [c \in CallIds |-> IdleCall]
    /\ lastWrite = <<>>
    /\ checkinDays = [u \in UserIds |-> {}]
    /\ clean = [u \in UserIds |-> FALSE]
    /\ probe = NoProbe
    /\ card = NewCard

---------------------------------------------------------------------------
(* Time *)

Tick ==
    /\ \E d \in StartDays :
          /\ clock >= d
          /\ clock < d + MaxTicks
    /\ clock' = clock + 1
    /\ calls' = Swept
    /\ lastWrite' = <<>>
    /\ UNCHANGED <<users, relapses, accounts, checkinDays, clean, probe, card>>

---------------------------------------------------------------------------
(* register, lines 532-553 *)

Register(u, username) ==
    /\ u \notin accounts
    /\ accounts' = accounts \cup {u}
    /\ \/ /\ users' = Put(users, u, NewProfile(username, clock))
          /\ clean' = [clean EXCEPT ![u] = TRUE]
       \/ /\ UNCHANGED <<users, clean>>
    /\ calls' = Swept
    /\ lastWrite' = <<>>
    /\ UNCHANGED <<relapses, clock, checkinDays, probe, card>>

---------------------------------------------------------------------------
(* updateStreak, lines 599-649 *)

CallUpdateStreak(c, u) ==
    /\ FirstFree(c)
    /\ calls' = Step(c, [IdleCall EXCEPT !.pc = "getDoc", !.op = "updateStreak",
                                          !.user = u, !.getDocs = 1])
    /\ lastWrite' = <<>>
    /\ UNCHANGED <<users, relapses, accounts, clock, checkinDays, clean, probe, card>>

\* faulty variant: no early return when the user has already checked in today
AfterGetDocNoEarlyReturn(call, userDoc, now) ==
    IF userDoc = <<>>
    THEN Return(call, Failure("User not found"))
    ELSE [call EXCEPT !.pc = "updateDoc",
                      !.updateDocs = @ + 1,
                      !.fields = StreakUpdate(NextStreakDays(userDoc[1], now), now)]

\* faulty variant: a missing document is read as an empty one
AfterGetDocMissingAsEmpty(call, userDoc, now) ==
    LET userData == IF userDoc = <<>> THEN NoFields ELSE userDoc[1]
    IN  IF IsToday(LastCheckInOf(userData), now)
        THEN Return(call, Ok(Field(userData, "streakDays"),
                             "Already checked in today"))
        ELSE [call EXCEPT !.pc = "updateDoc",
                          !.updateDocs = @ + 1,
                          !.fields = StreakUpdate(NextStreakDays(userData, now), now)]

\* faulty variant: a streak of 0 does not count as checked in today
AfterGetDocZeroStreakChecksIn(call, userDoc, now) ==
    IF userDoc = <<>>
    THEN Return(call, Failure("User not found"))
    ELSE LET userData == userDoc[1]
             streakDays == NextStreakDays(userData, now)
         IN  IF IsToday(LastCheckInOf(userData), now) /\ StreakDaysOrZero(userData) # 0
             THEN Return(call, Ok(Field(userData, "streakDays"),
                                  "Already checked in today"))
             ELSE [call EXCEPT !.pc = "updateDoc",
                               !.updateDocs = @ + 1,
                               !.fields = StreakUpdate(streakDays, now)]

\* the rest of updateStreak once getDoc has answered, up to the await of updateDoc
AfterGetDoc(call, userDoc, now) ==
    IF userDoc = <<>>
    THEN Return(call, Failure("User not found"))
    ELSE LET userData == userDoc[1]
             streakDays == NextStreakDays(userData, now)
         IN  IF IsToday(LastCheckInOf(userData), now)
             THEN Return(call, Ok(Field(userData, "streakDays"),
                                  "Already checked in today"))
             ELSE [call EXCEPT !.pc = "updateDoc",
                               !.updateDocs = @ + 1,
                               !.fields = StreakUpdate(streakDays, now)]

UsGetDoc(c) ==
    /\ calls[c].pc = "getDoc"
    /\ \/ calls' = Step(c, AfterGetDoc(calls[c], Field(users, calls[c].user), clock))
       \/ \E cause \in StoreErrors :
             calls' = Step(c, Catch(calls[c], cause))
    /\ lastWrite' = <<>>
    /\ UNCHANGED <<users, relapses, accounts, clock, checkinDays, clean, probe, card>>

UsUpdateDoc(c) ==
    LET call == calls[c]
        u == call.user
    IN  /\ call.pc = "updateDoc"
        /\ call.op = "updateStreak"
        /\ lastWrite' = <<DOMAIN call.fields>>
        /\ \/ /\ u \in DOMAIN users
              /\ users' = Put(users, u, Merge(users[u], call.fields))
              /\ calls' = Overtake(c, Return(call, Ok(<<call.fields.streakDays>>,
                                                   "Streak updated successfully")), u)
              /\ checkinDays' = [checkinDays EXCEPT
                                    ![u] = @ \cup {call.fields.lastCheckIn}]
           \/ /\ \E cause \in StoreErrors \cup
                                (IF u \in DOMAIN users THEN {} ELSE {"not-found"}) :
                    calls' = Step(c, Catch(call, cause))
              /\ UNCHANGED <<users, checkinDays>>
        /\ UNCHANGED <<relapses, accounts, clock, clean, probe, card>>

---------------------------------------------------------------------------
(* updateStreak's decision on its own: a profile and a time are handed to the *)
(* code between the answer of getDoc and the await of updateDoc (605-639)     *)

ProbeDays == ProbeFirstDay..(ProbeFirstDay + ProbeSpan)

ProbeDocs ==
    {[username |-> "ann", streakDays |-> s, lastCheckIn |-> d] :
        s \in 0..MaxProbeStreak, d \in ProbeDays}

\* an updateStreak whose getDoc is outstanding
ProbeCall ==
    [IdleCall EXCEPT !.pc = "getDoc", !.op = "updateStreak", !.getDocs = 1]

Decide ==
    /\ probe.userData # NoFields
    /\ probe.after = <<>>
    /\ probe' = [probe EXCEPT
                    !.isYesterday =
                        <<IsYesterday(LastCheckInOf(probe.userData), probe.now)>>,
                    !.after =
                        <<AfterGetDoc(ProbeCall, <<probe.userData>>, probe.now)>>]
    /\ UNCHANGED <<users, relapses, accounts, clock, calls, lastWrite,
                   checkinDays, clean, card>>

---------------------------------------------------------------------------
(* logRelapse, lines 652-672 *)

CallLogRelapse(c, u, notes) ==
    /\ FirstFree(c)
    /\ calls' = Step(c, [IdleCall EXCEPT !.pc = "setDoc", !.op = "logRelapse",
                                          !.user = u, !.notes = notes,
                                          !.setDocs = 1,
                                          !.recordId = AutoId,
                                          !.record = RelapseRecord(u, clock, notes)])
    /\ clean' = [clean EXCEPT ![u] = FALSE]
    /\ lastWrite' = <<>>
    /\ UNCHANGED <<users, relapses, accounts, clock, checkinDays, probe, card>>

\* the rest of logRelapse once setDoc has answered, up to the await of updateDoc
AfterSetDoc(call, now) ==
    [call EXCEPT !.pc = "updateDoc", !.notes = <<>>,
                 !.record = NoFields, !.recordId = 0,
                 !.updateDocs = @ + 1,
                 !.fields = RelapseReset(now)]

\* faulty variant: a rejected append is ignored and the reset is issued anyway
LrSetDocResetAnyway(c) ==
    LET call == calls[c]
    IN  /\ call.pc = "setDoc"
        /\ \/ relapses' = Put(relapses, call.recordId, call.record)
           \/ UNCHANGED relapses
        /\ calls' = Step(c, AfterSetDoc(call, clock))
        /\ lastWrite' = <<>>
        /\ UNCHANGED <<users, accounts, clock, checkinDays, clean, probe, card>>

LrSetDoc(c) ==
    LET call == calls[c]
    IN  /\ call.pc = "setDoc"
        /\ \/ /\ relapses' = Put(relapses, call.recordId, call.record)
              /\ calls' = Step(c, AfterSetDoc(call, clock))
           \/ /\ \E cause \in StoreErrors :
                    calls' = Step(c, Catch(call, cause))
              /\ UNCHANGED relapses
        /\ lastWrite' = <<>>
        /\ UNCHANGED <<users, accounts, clock, checkinDays, clean, probe, card>>

LrUpdateDoc(c) ==
    LET call == calls[c]
        u == call.user
    IN  /\ call.pc = "updateDoc"
        /\ call.op = "logRelapse"
        /\ lastWrite' = <<DOMAIN call.fields>>
        /\ \/ /\ u \in DOMAIN users
              /\ users' = Put(users, u, Merge(users[u], call.fields))
              /\ calls' = Overtake(c, Return(call, Ok(<<>>, "Progress reset")), u)
           \/ /\ \E cause \in StoreErrors \cup
                                (IF u \in DOMAIN users THEN {} ELSE {"not-found"}) :
                    calls' = Step(c, Catch(call, cause))
              /\ UNCHANGED users
        /\ UNCHANGED <<relapses, accounts, clock, checkinDays, clean, probe, card>>

---------------------------------------------------------------------------
(* the profile form, lines 107-134 *)

\* updateUserProfile(uid, fields): the gateway's write(userId, fields)
UpdateUserProfile(userDoc, fields) == Merge(userDoc, fields)

ProfileSubmit(u, username) ==
    /\ u \in accounts
    /\ lastWrite' = <<DOMAIN ProfileFormFields(username)>>
    /\ \/ /\ u \in DOMAIN users
          /\ users' = Put(users, u, UpdateUserProfile(users[u], ProfileFormFields(username)))
       \/ UNCHANGED users
    /\ calls' = Swept
    /\ UNCHANGED <<relapses, accounts, clock, checkinDays, clean, probe, card>>

---------------------------------------------------------------------------
(* MeditationCard, src/src/components/ThemeProvider.tsx lines 46-163.       *)
(* A handler runs to its end and the component function runs again for the  *)
(* state it set.  A timer is the id setInterval returned; its callback      *)
(* belongs to the render whose handlePlayPause created it, and that render's *)
(* intervalRef holds the timer's own id from line 70 on.                     *)

TimerIds == 1..MaxTimers

\* the component function runs again: line 59 makes a new intervalRef = null
Render(c) == [c EXCEPT !.intervalRef = <<>>]

\* clearInterval(intervalRef) when intervalRef is not null
ClearInterval(timers, intervalRef) ==
    IF intervalRef # <<>> THEN timers \ {intervalRef[1]} ELSE timers

\* lines 61-87
HandlePlayPause ==
    /\ IF card.isPlaying
       THEN card' = Render([card EXCEPT
                               !.isPlaying = FALSE,
                               !.timers = ClearInterval(@, card.intervalRef)])
       ELSE /\ card.created < MaxTimers
            /\ LET id == card.created + 1
               IN  card' = Render([card EXCEPT
                                      !.isPlaying = TRUE,
                                      !.intervalRef = <<id>>,
                                      !.timers = @ \cup {id},
                                      !.created = id])
    /\ UNCHANGED <<users, relapses, accounts, clock, calls, lastWrite,
                   checkinDays, clean, probe>>

\* the callback of timer id, lines 70-85
TimerFires(id) ==
    /\ id \in card.timers
    /\ card.elapsedTime < MaxElapsed
    /\ LET newProgress == card.progress + 1
           newTime == card.elapsedTime + 1
       IN  card' = Render(
               IF newProgress >= TotalIntervals
               THEN [card EXCEPT !.isPlaying = FALSE,
                                 !.timers = ClearInterval(@, <<id>>),
                                 !.progress = TotalIntervals,
                                 !.elapsedTime = newTime]
               ELSE [card EXCEPT !.progress = newProgress,
                                 !.elapsedTime = newTime])
    /\ UNCHANGED <<users, relapses, accounts, clock, calls, lastWrite,
                   checkinDays, clean, probe>>

\* lines 89-91
HandleFavorite ==
    /\ card' = Render([card EXCEPT !.isFavorited = ~card.isFavorited])
    /\ UNCHANGED <<users, relapses, accounts, clock, calls, lastWrite,
                   checkinDays, clean, probe>>

---------------------------------------------------------------------------
(* Specifications *)

\* callers may overlap: a call may start while another is suspended at an await
Next ==
    \/ Tick
    \/ \E u \in UserIds, n \in Usernames : Register(u, n)
    \/ \E u \in UserIds, n \in Usernames : ProfileSubmit(u, n)
    \/ \E c \in CallIds, u \in UserIds : CallUpdateStreak(c, u)
    \/ \E c \in CallIds : UsGetDoc(c)
    \/ \E c \in CallIds : UsUpdateDoc(c)
    \/ RelapsesBelow(MaxOverlapRelapses)
          /\ \E c \in CallIds, u \in UserIds, n \in NotesInputs : CallLogRelapse(c, u, n)
    \/ \E c \in CallIds : LrSetDoc(c)
    \/ \E c \in CallIds : LrUpdateDoc(c)

Spec == Init /\ [][Next]_vars

\* sequential histories: an operation starts only when no call is outstanding
SeqNext ==
    \/ Tick
    \/ Quiet /\ \E u \in UserIds, n \in Usernames : Register(u, n)
    \/ Quiet /\ \E u \in UserIds, n \in Usernames : ProfileSubmit(u, n)
    \/ Quiet /\ \E c \in CallIds, u \in UserIds : CallUpdateStreak(c, u)
    \/ \E c \in CallIds : UsGetDoc(c)
    \/ \E c \in CallIds : UsUpdateDoc(c)
    \/ Quiet /\ RelapsesBelow(MaxRelapses)
          /\ \E c \in CallIds, u \in UserIds, n \in NotesInputs : CallLogRelapse(c, u, n)
    \/ \E c \in CallIds : LrSetDoc(c)
    \/ \E c \in CallIds : LrUpdateDoc(c)

SeqSpec == Init /\ [][SeqNext]_vars

\* no profile, no record, no account, no call
FreshStore ==
    /\ users = [k \in {} |-> NoFields]
    /\ accounts = {}
    /\ relapses = [k \in {} |-> NoFields]
    /\ clock \in StartDays
    /\ calls = [c \in CallIds |-> IdleCall]
    /\ lastWrite = <<>>
    /\ checkinDays = [u \in UserIds |-> {}]
    /\ clean = [u \in UserIds |-> FALSE]

\* updateStreak's decision applied to every profile and time of the probe
DecisionInit ==
    /\ FreshStore
    /\ card = NewCard
    /\ probe \in {[NoProbe EXCEPT !.userData = d, !.now = n] :
                      d \in ProbeDocs, n \in ProbeDays}

DecisionNext == Decide

DecisionSpec == DecisionInit /\ [][DecisionNext]_vars

\* a mounted MeditationCard, its button presses and its timers
CardInit ==
    /\ FreshStore
    /\ probe = NoProbe
    /\ card = NewCard

CardNext ==
    \/ HandlePlayPause
    \/ HandleFavorite
    \/ \E id \in TimerIds : TimerFires(id)

CardSpec == CardInit /\ [][CardNext]_vars

---------------------------------------------------------------------------
(* Properties *)

\* the step is the one in which getDoc answers call c (the read is not rejected)
GetDocAnswers(c) ==
    /\ calls[c].pc = "getDoc"
    /\ calls'[c] # calls[c]
    /\ calls'[c].error = <<>>

\* the step is the one in which the store accepts the updateDoc of call c
UpdateDocAccepted(c) ==
    /\ calls[c].pc = "updateDoc"
    /\ calls'[c].pc = "done"
    /\ calls'[c].error = <<>>

Returns(c, r) == calls'[c].pc = "done" /\ calls'[c].result = <<r>>

\* the profile of call c's user holds, after the step, the streakDays and the
\* lastCheckIn the call's updateDoc was issued with
Stores(c) ==
    LET u == calls[c].user
    IN  /\ u \in DOMAIN users'
        /\ Field(users'[u], "streakDays") = <<calls[c].fields.streakDays>>
        /\ Field(users'[u], "lastCheckIn") = <<calls[c].fields.lastCheckIn>>

SameCalendarDate(t1, t2) == Civil(t1) = Civil(t2)

\* C1: when updateStreak reads a profile whose lastCheckIn is on the same
\* calendar date as now, it returns success=true with the stored streakDays
\* and 'Already checked in today', issues no update, and the profiles stay
\* as they were.
C1_AlreadyCheckedInToday ==
    [][\A c \in CallIds :
          LET u == calls[c].user
          IN  (/\ GetDocAnswers(c)
               /\ u \in DOMAIN users
               /\ "lastCheckIn" \in DOMAIN users[u]
               /\ SameCalendarDate(users[u].lastCheckIn, clock))
              => /\ Returns(c, Ok(Field(users[u], "streakDays"),
                                  "Already checked in today"))
                 /\ calls'[c].updateDocs = 0
                 /\ lastWrite' = <<>>
                 /\ users' = users]_vars

C1_Witness ==
    \E c \in CallIds :
        /\ calls[c].pc = "done"
        /\ calls[c].op = "updateStreak"
        /\ calls[c].result[1] = Ok(<<1>>, "Already checked in today")
        /\ calls[c].user \in DOMAIN users
        /\ Field(users[calls[c].user], "lastCheckIn") = <<clock>>

\* C2: when updateStreak reads a profile whose lastCheckIn is exactly one
\* calendar day before now, in the same month and year, the update it issues
\* is streakDays = previous streakDays + 1 (0 + 1 when streakDays is missing)
\* together with lastCheckIn = now; once the store accepts it the profile
\* holds these values and the call returns success=true with the new streakDays.
C2_YesterdayIncrements ==
    [][\A c \in CallIds :
          LET u == calls[c].user
          IN  /\ (/\ GetDocAnswers(c)
                  /\ u \in DOMAIN users
                  /\ "lastCheckIn" \in DOMAIN users[u]
                  /\ users[u].lastCheckIn + 1 = clock
                  /\ Civil(users[u].lastCheckIn).month = Civil(clock).month
                  /\ Civil(users[u].lastCheckIn).year = Civil(clock).year)
                 => /\ calls'[c].pc = "updateDoc"
                    /\ calls'[c].fields =
                          [streakDays |->
                              (IF "streakDays" \in DOMAIN users[u]
                               THEN users[u].streakDays ELSE 0) + 1,
                           lastCheckIn |-> clock]
              /\ (/\ UpdateDocAccepted(c)
                  /\ calls[c].op = "updateStreak")
                 => /\ Stores(c)
                    /\ Returns(c, Ok(<<calls[c].fields.streakDays>>,
                                     "Streak updated successfully"))]_vars

C2_Witness ==
    \E c \in CallIds :
        /\ calls[c].pc = "done"
        /\ calls[c].op = "updateStreak"
        /\ calls[c].result[1] = Ok(<<2>>, "Streak updated successfully")
        /\ Field(users[calls[c].user], "streakDays") = <<2>>

\* C3: when updateStreak reads a profile whose lastCheckIn is two or more
\* calendar days before now, or absent, the update it issues is streakDays = 1
\* together with lastCheckIn = now, whatever the previous streakDays was; once
\* the store accepts it the profile holds these values.
C3_MissedDayResets ==
    [][\A c \in CallIds :
          LET u == calls[c].user
          IN  /\ (/\ GetDocAnswers(c)
                  /\ u \in DOMAIN users
                  /\ \/ "lastCheckIn" \notin DOMAIN users[u]
                     \/ users[u].lastCheckIn + 2 <= clock)
                 => /\ calls'[c].pc = "updateDoc"
                    /\ calls'[c].fields = [streakDays |-> 1, lastCheckIn |-> clock]
              /\ (/\ UpdateDocAccepted(c)
                  /\ calls[c].op = "updateStreak"
                  /\ calls[c].fields.streakDays = 1)
                 => Stores(c)]_vars

\* a pending reset to 1 of a profile whose streak was 1 or more and whose last
\* check-in is two days old
C3_Witness ==
    \E c \in CallIds :
        LET u == calls[c].user
        IN  /\ calls[c].pc = "updateDoc"
            /\ calls[c].op = "updateStreak"
            /\ calls[c].fields.streakDays = 1
            /\ u \in DOMAIN users
            /\ "lastCheckIn" \in DOMAIN users[u]
            /\ users[u].lastCheckIn + 2 <= calls[c].fields.lastCheckIn
            /\ "streakDays" \in DOMAIN users[u]
            /\ users[u].streakDays >= 1

\* the number of consecutive calendar days, ending at the latest day of S, that
\* are all in S
ConsecutiveDays(S) ==
    IF S = {} THEN 0
    ELSE LET last == CHOOSE d \in S : \A e \in S : e <= d
         IN  Cardinality({d \in S : \A e \in d..last : e \in S})

\* C4: in sequential histories of register and updateStreak without a
\* relapse, the stored streakDays of a registered user is the number of
\* consecutive calendar days, ending at the day of the latest recorded
\* check-in, on each of which a check-in was recorded.
C4_StreakCountsConsecutiveDays ==
    \A u \in UserIds :
        (clean[u] /\ u \in DOMAIN users)
        => Field(users[u], "streakDays") = <<ConsecutiveDays(checkinDays[u])>>

\* C5: in sequential histories, an updateStreak whose update is accepted is the
\* first of its calendar day to write, and every updateStreak that reads the
\* profile on a day that already has a recorded check-in returns the stored
\* streakDays without issuing an update.
C5_OneCheckInPerDay ==
    [][\A c \in CallIds :
          LET u == calls[c].user
          IN  /\ (UpdateDocAccepted(c) /\ calls[c].op = "updateStreak")
                 => calls[c].fields.lastCheckIn \notin checkinDays[u]
              /\ (GetDocAnswers(c) /\ clock \in checkinDays[u])
                 => /\ u \in DOMAIN users
                    /\ Returns(c, Ok(Field(users[u], "streakDays"),
                                     "Already checked in today"))
                    /\ calls'[c].updateDocs = 0
                    /\ users' = users]_vars

\* a second updateStreak on a day whose check-in was recorded, after a relapse
\* on that day
C5_Witness ==
    \E c \in CallIds :
        /\ calls[c].pc = "done"
        /\ calls[c].op = "updateStreak"
        /\ calls[c].result[1] = Ok(<<0>>, "Already checked in today")
        /\ clock \in checkinDays[calls[c].user]

\* C6 as claimed: every logRelapse call that has returned leaves a stored
\* profile with streakDays = 0 and a RelapseRecord of the user.
C6_EveryRelapseResets ==
    \A c \in CallIds :
        (calls[c].pc = "done" /\ calls[c].op = "logRelapse")
        => /\ calls[c].user \in DOMAIN users
           /\ Field(users[calls[c].user], "streakDays") = <<0>>
           /\ \E id \in DOMAIN relapses : relapses[id].userId = calls[c].user

\* C6 amended: a logRelapse call issues the record {userId, timestamp of the
\* call, notes or '' when omitted} under an id no stored record has; when the
\* store accepts it exactly that record is added and the reset {streakDays: 0,
\* lastCheckIn: now} is issued; a call that returns success=true has stored
\* streakDays = 0 and that lastCheckIn and has added exactly one record.
C6_SuccessfulRelapseResets ==
    [][\A c \in CallIds :
          LET u == calls'[c].user
          IN  /\ (Free(c) /\ calls'[c].pc = "setDoc")
                 => /\ calls'[c].record =
                          [userId |-> u, timestamp |-> clock,
                           notes |-> IF calls'[c].notes = <<>>
                                     THEN "" ELSE calls'[c].notes[1]]
                    /\ calls'[c].recordId \notin DOMAIN relapses
              /\ (calls[c].pc = "setDoc" /\ calls'[c] # calls[c] /\ calls'[c].error = <<>>)
                 => /\ calls[c].recordId \notin DOMAIN relapses
                    /\ DOMAIN relapses' = DOMAIN relapses \cup {calls[c].recordId}
                    /\ relapses'[calls[c].recordId] = calls[c].record
                    /\ \A id \in DOMAIN relapses : relapses'[id] = relapses[id]
                    /\ calls'[c].pc = "updateDoc"
                    /\ calls'[c].fields = [streakDays |-> 0, lastCheckIn |-> clock]
              /\ (UpdateDocAccepted(c) /\ calls[c].op = "logRelapse")
                 => /\ Stores(c)
                    /\ calls[c].fields.streakDays = 0
                    /\ relapses' = relapses
                    /\ calls'[c].setDocs = 1
                    /\ calls'[c].pc = "done"
                    /\ calls'[c].result[1].success]_vars

\* a successful logRelapse with notes, resetting a streak that had begun
C6_Witness ==
    \E c \in CallIds :
        /\ calls[c].pc = "done"
        /\ calls[c].op = "logRelapse"
        /\ calls[c].result[1].success
        /\ Field(users[calls[c].user], "streakDays") = <<0>>
        /\ checkinDays[calls[c].user] # {}
        /\ \E id \in DOMAIN relapses :
              relapses[id] = [userId |-> calls[c].user, timestamp |-> clock,
                              notes |-> "slip"]

BothOrNeither(F) == ("streakDays" \in F) <=> ("lastCheckIn" \in F)

\* C7: every update issued to a profile document (by updateStreak, logRelapse
\* or the profile form) names both streakDays and lastCheckIn or neither.
C7_StreakFieldsWrittenTogether ==
    /\ lastWrite # <<>> => BothOrNeither(lastWrite[1])
    /\ \A c \in CallIds :
          calls[c].pc = "updateDoc" => BothOrNeither(DOMAIN calls[c].fields)

C7_Witness ==
    \E c \in CallIds :
        /\ calls[c].pc = "done"
        /\ calls[c].op = "updateStreak"
        /\ calls[c].result[1].success
        /\ lastWrite = <<{"streakDays", "lastCheckIn"}>>

\* C8: when getDoc finds no profile document for userId, updateStreak returns
\* {success: false, message: 'User not found'} and issues no update: no profile
\* is created and none changes.
C8_UserNotFound ==
    [][\A c \in CallIds :
          (GetDocAnswers(c) /\ calls[c].user \notin DOMAIN users)
          => /\ Returns(c, Failure("User not found"))
             /\ calls'[c].updateDocs = 0
             /\ lastWrite' = <<>>
             /\ users' = users]_vars

C8_Witness ==
    \E c \in CallIds :
        /\ calls[c].pc = "done"
        /\ calls[c].op = "updateStreak"
        /\ calls[c].result[1] = Failure("User not found")
        /\ calls[c].error = <<>>
        /\ calls[c].user \notin DOMAIN users

\* C9: in sequential histories, when the store rejects a call of updateStreak
\* or logRelapse the invocation returns {success: false, message: cause} in
\* that step without changing a profile; a step of an invocation that changes a
\* profile is its last and returns success, so a failed invocation leaves the
\* profile as it was before the call; no store call is issued twice.
C9_FailureLeavesProfile ==
    [][\A c \in CallIds :
          (InFlight(c) /\ calls'[c] # calls[c])
          => /\ calls'[c].error # <<>>
                => /\ Returns(c, Failure(calls'[c].error[1]))
                   /\ users' = users
             /\ users' # users
                => /\ calls'[c].pc = "done"
                   /\ calls'[c].result[1].success
             /\ calls'[c].getDocs <= 1
             /\ calls'[c].setDocs <= 1
             /\ calls'[c].updateDocs <= 1]_vars

\* a logRelapse whose record was appended and whose reset the store rejected
C9_Witness ==
    \E c \in CallIds :
        /\ calls[c].pc = "done"
        /\ calls[c].op = "logRelapse"
        /\ calls[c].error # <<>>
        /\ calls[c].updateDocs = 1
        /\ ~calls[c].result[1].success
        /\ calls[c].user \in DOMAIN users
        /\ Field(users[calls[c].user], "streakDays") = <<1>>

\* C10: no step modifies or removes a stored RelapseRecord, and a step that
\* changes the collection adds exactly one document.
C10_RelapsesAppendOnly ==
    [][/\ \A id \in DOMAIN relapses :
             id \in DOMAIN relapses' /\ relapses'[id] = relapses[id]
       /\ relapses' # relapses
          => Cardinality(DOMAIN relapses') = Cardinality(DOMAIN relapses) + 1]_vars

\* two records of the same user, call time and notes under two document ids
C10_Witness ==
    /\ Cardinality(DOMAIN relapses) = 2
    /\ \A i, j \in DOMAIN relapses : relapses[i] = relapses[j]

\* C11: two updateStreak calls of one user can both have read the profile
\* before either writes.  When the second read is answered on the day of the
\* first call's pending update, the streak fields not having been written since
\* the first read, the second call issues an update too, with the same fields
\* as the first: streakDays = stored streakDays + 1, or 1.  Every update of an
\* updateStreak that the store accepts is stored as issued and returned, also
\* when the day already has a recorded check-in, so the profile ends with that
\* one value.
C11_RacingCheckInsWriteSameValue ==
    [][\A c \in CallIds :
          LET u == calls[c].user
          IN  /\ \A d \in CallIds \ {c} :
                    (/\ GetDocAnswers(d)
                     /\ HasRead(calls[c], calls[d].user)
                     /\ calls[c].writtenSince = <<>>
                     /\ calls[c].fields.lastCheckIn = clock)
                    => /\ calls'[d].pc = "updateDoc"
                       /\ calls'[d].updateDocs = 1
                       /\ calls'[d].fields = calls[c].fields
                       /\ calls[c].fields.streakDays \in
                             {1, (IF "streakDays" \in DOMAIN users[u]
                                  THEN users[u].streakDays ELSE 0) + 1}
              /\ (UpdateDocAccepted(c) /\ calls[c].op = "updateStreak")
                 => /\ Stores(c)
                    /\ Returns(c, Ok(<<calls[c].fields.streakDays>>,
                                     "Streak updated successfully"))]_vars

\* the second of two check-in writes of one day: the call was overtaken by the
\* other updateStreak after it had read, and the streak stands at 1 after the
\* only day with recorded check-ins
C11_Witness ==
    \E c \in CallIds :
        /\ calls[c].pc = "done"
        /\ calls[c].op = "updateStreak"
        /\ calls[c].writtenSince = <<"updateStreak">>
        /\ calls[c].result[1] = Ok(<<1>>, "Streak updated successfully")
        /\ checkinDays[calls[c].user] = {clock}
        /\ users[calls[c].user].streakDays = 1
        /\ users[calls[c].user].lastCheckIn = clock

C13_AppendThenReset ==
    [][\A c \in CallIds :
          LET u == calls[c].user
          IN  /\ (calls'[c].pc = "updateDoc" /\ calls'[c].op = "logRelapse"
                     /\ calls[c].pc # "updateDoc")
                 => /\ calls[c].pc = "setDoc"
                    /\ calls[c].recordId \notin DOMAIN relapses
                    /\ calls[c].recordId \in DOMAIN relapses'
                    /\ relapses'[calls[c].recordId] = calls[c].record
                    /\ users' = users
              /\ (calls[c].pc = "setDoc" /\ calls'[c].error # <<>>)
                 => /\ Returns(c, Failure(calls'[c].error[1]))
                    /\ calls'[c].updateDocs = 0
                    /\ relapses' = relapses
                    /\ users' = users
              /\ (UpdateDocAccepted(c) /\ calls[c].op = "logRelapse")
                 => /\ calls[c].setDocs = 1
                    /\ \E id \in DOMAIN relapses :
                          /\ relapses[id].userId = u
                          /\ relapses[id].timestamp <= calls[c].fields.lastCheckIn
                    /\ relapses' = relapses]_vars

\* the record of today's relapse is stored, the reset was rejected, the call
\* has returned success=false and the streak stands as it was
C13_Witness ==
    \E c \in CallIds :
        /\ calls[c].pc = "done"
        /\ calls[c].op = "logRelapse"
        /\ calls[c].setDocs = 1
        /\ calls[c].updateDocs = 1
        /\ calls[c].result[1] = Failure("unavailable")
        /\ \E id \in DOMAIN relapses :
              relapses[id].userId = calls[c].user /\ relapses[id].timestamp = clock
        /\ calls[c].user \in DOMAIN users
        /\ Field(users[calls[c].user], "streakDays") = <<1>>
        /\ Field(users[calls[c].user], "lastCheckIn") # <<clock>>

\* C14: when an updateStreak has read the profile, a logRelapse of the same
\* user has then returned success before the updateStreak's write, and no call
\* is outstanding any more, the stored streakDays is 0.
C14_RelapseNotUndone ==
    \A c \in CallIds :
        (/\ calls[c].pc = "done"
         /\ calls[c].op = "updateStreak"
         /\ calls[c].writtenSince = <<"logRelapse">>
         /\ Quiet)
        => Field(users[calls[c].user], "streakDays") = <<0>>

\* the profile of u stands as a reset stamped `day` leaves it, and the
\* collection holds a RelapseRecord of u
RelapsedOn(profiles, records, u, day) ==
    /\ u \in DOMAIN profiles
    /\ Field(profiles[u], "streakDays") = <<0>>
    /\ Field(profiles[u], "lastCheckIn") = <<day>>
    /\ \E id \in DOMAIN records : records[id].userId = u

\* C15: in sequential histories, a logRelapse whose reset is accepted on the
\* day d it is stamped with leaves streakDays = 0 and lastCheckIn = d; as long
\* as the day is d the profile stays so, and every updateStreak that reads it
\* returns success with streakDays = 0 and 'Already checked in today' without
\* issuing an update; a step that takes the streak of a relapsed profile from
\* 0 to another value is the accepted update of an updateStreak issued on a
\* later day than the reset, and the value is 1.
C15_RelapseDayStaysZero ==
    [][/\ \A c \in CallIds :
             LET u == calls[c].user
             IN  /\ (/\ UpdateDocAccepted(c)
                     /\ calls[c].op = "logRelapse"
                     /\ calls[c].fields.lastCheckIn = clock)
                    => RelapsedOn(users', relapses', u, clock)
                 /\ (RelapsedOn(users, relapses, u, clock) /\ GetDocAnswers(c))
                    => /\ Returns(c, Ok(<<0>>, "Already checked in today"))
                       /\ calls'[c].updateDocs = 0
                       /\ users' = users
       /\ \A u \in UserIds :
             /\ (RelapsedOn(users, relapses, u, clock) /\ clock' = clock)
                => RelapsedOn(users', relapses', u, clock)
             /\ (/\ u \in DOMAIN users
                 /\ "lastCheckIn" \in DOMAIN users[u]
                 /\ RelapsedOn(users, relapses, u, users[u].lastCheckIn)
                 /\ Field(users'[u], "streakDays") # <<0>>)
                => \E c \in CallIds :
                      /\ UpdateDocAccepted(c)
                      /\ calls[c].op = "updateStreak"
                      /\ calls[c].user = u
                      /\ calls[c].fields.lastCheckIn > users[u].lastCheckIn
                      /\ users'[u].streakDays = 1]_vars

\* an updateStreak on the day of a relapse, a day without a recorded check-in
\* after a day with one, has returned streakDays = 0
C15_Witness ==
    \E c \in CallIds :
        /\ calls[c].pc = "done"
        /\ calls[c].op = "updateStreak"
        /\ calls[c].result[1] = Ok(<<0>>, "Already checked in today")
        /\ RelapsedOn(users, relapses, calls[c].user, clock)
        /\ \E id \in DOMAIN relapses : relapses[id].timestamp = clock
        /\ checkinDays[calls[c].user] # {}
        /\ clock \notin checkinDays[calls[c].user]

\* C16: while isPlaying is false no timer created by handlePlayPause is
\* running, and at most one timer is running at any time.
C16_PauseStopsTimer ==
    /\ ~card.isPlaying => card.timers = {}
    /\ Cardinality(card.timers) <= 1

====
